---- MODULE Spec2Model ----
(***************************************************************************)
(* GeoJSONLayer (src/src/geojson-layer.ts): a React component that keeps   *)
(* one GeoJSON source and five derived layers of a mapbox-gl map in step   *)
(* with its properties.  The component's lifecycle hooks are the actions;  *)
(* the map is modelled by the state its public API exposes (sources,       *)
(* layers in stacking order, delegated mouse listeners, 'styledata'        *)
(* listeners) and every call the component makes is recorded in a log.     *)
(***************************************************************************)
EXTENDS Naturals, Sequences, FiniteSets, Bags, TLC

VARIABLES
    phase,          \* "new" | "mounted" | "unmounted": the component's lifecycle
    id,             \* this.id
    props,          \* this.props (an object: absent key = undefined)
    source,         \* this.source
    layerIds,       \* this.layerIds
    mapPresent,     \* context.map is set
    styleLoaded,    \* map.getStyle() returns a style
    sources,        \* the map's sources: id -> descriptor
    layers,         \* the map's layers, bottom to top
    listeners,      \* the map's delegated listeners: bag of <<event, layerId, handler>>
    styleListeners, \* how many times onStyleDataChange is subscribed to 'styledata'
    pending,        \* a style change has happened whose 'styledata' is not yet delivered
    resets,         \* style replacements so far
    owner,          \* the property sets the owner renders the component with
    last,           \* the last lifecycle call: its name, its inputs, whether it threw
    log             \* the map calls made by the last lifecycle call, in order

vars == <<phase, id, props, source, layerIds, mapPresent, styleLoaded, sources,
          layers, listeners, styleListeners, pending, resets, owner, last, log>>

----------------------------------------------------------------------------
(* Bounds *)

\* how many times the map's style may be replaced or unloaded in one run
MaxResets == 2

----------------------------------------------------------------------------
(* JavaScript objects: functions from keys to values; an absent key is     *)
(* undefined.                                                              *)

EmptyObj == [k \in {} |-> ""]

Has(o, k) == k \in DOMAIN o

\* o[k] as a set: {} when undefined, so that two slots compare with =
Opt(o, k) == IF k \in DOMAIN o THEN {o[k]} ELSE {}

\* { ...base, ...over }
Spread(base, over) == over @@ base

Keys(o) == DOMAIN o

RECURSIVE Join(_)
Join(s) == IF s = <<>> THEN "" ELSE Head(s) \o Join(Tail(s))

Range(s) == {s[i] : i \in 1..Len(s)}

----------------------------------------------------------------------------
(* Constants of the module *)

types == <<"symbol", "line", "fill", "fill-extrusion", "circle">>

\* the characters of each string toCamelCase is applied to
Spell ==
    ("symbol" :> <<"s","y","m","b","o","l">>) @@
    ("line" :> <<"l","i","n","e">>) @@
    ("fill" :> <<"f","i","l","l">>) @@
    ("fill-extrusion" :> <<"f","i","l","l","-","e","x","t","r","u","s","i","o","n">>) @@
    ("circle" :> <<"c","i","r","c","l","e">>)

LowerCase == <<"a","b","c","d","e","f","g","h","i","j","k","l","m",
               "n","o","p","q","r","s","t","u","v","w","x","y","z">>
UpperCase == <<"A","B","C","D","E","F","G","H","I","J","K","L","M",
               "N","O","P","Q","R","S","T","U","V","W","X","Y","Z">>
Digits == {"0","1","2","3","4","5","6","7","8","9"}

IndexOf(seq, c) ==
    IF \E i \in 1..Len(seq) : seq[i] = c
    THEN CHOOSE i \in 1..Len(seq) : seq[i] = c /\ \A j \in 1..(i-1) : seq[j] # c
    ELSE 0

toUpperCase(c) == IF IndexOf(LowerCase, c) > 0 THEN UpperCase[IndexOf(LowerCase, c)] ELSE c
toLowerCase(c) == IF IndexOf(UpperCase, c) > 0 THEN LowerCase[IndexOf(UpperCase, c)] ELSE c

\* \w
IsWord(c) == c \in Range(LowerCase) \cup Range(UpperCase) \cup Digits \cup {"_"}

\* /(?:^\w|[A-Z]|\b\w)/ matches the character at position i
CamelMatch(s, i) ==
    \/ i = 1 /\ IsWord(s[i])
    \/ s[i] \in Range(UpperCase)
    \/ IsWord(s[i]) /\ (i = 1 \/ ~IsWord(s[i-1]))

toCamelCaseChars(s) ==
    LET replaced == [i \in 1..Len(s) |->
                        IF CamelMatch(s, i)
                        THEN (IF i = 1 THEN toLowerCase(s[i]) ELSE toUpperCase(s[i]))
                        ELSE s[i]]
        Dropped(c) == c \in {" ", "+", "-"}
    IN SelectSeq(replaced, LAMBDA c : ~Dropped(c))

toCamelCase(str) == Join(toCamelCaseChars(Spell[str]))

\* toCamelCase over the layer types, computed once
camel == [t \in Range(types) |-> toCamelCase(t)]

events == <<"mousemove", "mouseenter", "mouseleave", "mousedown", "mouseup", "click">>

eventToHandler ==
    [mousemove |-> "OnMouseMove", mouseenter |-> "OnMouseEnter",
     mouseleave |-> "OnMouseLeave", mousedown |-> "OnMouseDown",
     mouseup |-> "OnMouseUp", click |-> "OnClick"]

\* the property names the component reads, computed once:
\* toCamelCase(type) + eventToHandler[event], + 'Paint', + 'Layout'
handlerProps ==
    [t \in Range(types) |-> [e \in Range(events) |-> camel[t] \o eventToHandler[e]]]
paintProps == [t \in Range(types) |-> camel[t] \o "Paint"]
layoutProps == [t \in Range(types) |-> camel[t] \o "Layout"]

HandlerProp(type, event) == handlerProps[type][event]
PaintProp(type) == paintProps[type]
LayoutProp(type) == layoutProps[type]

----------------------------------------------------------------------------
(* The world a lifecycle call runs in: the component's fields and the map,  *)
(* threaded through the statements in program order.                        *)
(*   w.id, w.source, w.layerIds           the component                     *)
(*   w.sources, w.layers, w.listeners,                                      *)
(*   w.styleListeners                     the map                           *)
(*   w.log                                the map calls made so far         *)
(*   w.raised                             an exception has been thrown      *)

Call(w, c) == [w EXCEPT !.log = Append(@, c)]

\* seq.forEach(x => w = Op(w, x)), as in lines 169, 208, 209, 218, 262, 274,
\* 284 and 289: an exception thrown by Op ends the loop
RECURSIVE ForEach(_, _, _)
ForEach(seq, Op(_, _), w) ==
    IF seq = <<>>
    THEN w
    ELSE LET v == Op(w, Head(seq))
         IN IF v.raised THEN v ELSE ForEach(Tail(seq), Op, v)

(* The map's API, as far as the component uses it. *)

HasSource(w, sid) == sid \in DOMAIN w.sources

HasLayer(w, lid) == \E i \in 1..Len(w.layers) : w.layers[i].id = lid

LayerIndex(ls, lid) == IndexOf([i \in 1..Len(ls) |-> ls[i].id], lid)

\* ls with layer l inserted below the layer named by before, or on top
InsertLayer(ls, l, before) ==
    LET at == IF before = {} THEN 0 ELSE LayerIndex(ls, CHOOSE b \in before : TRUE)
    IN IF at = 0
       THEN Append(ls, l)
       ELSE SubSeq(ls, 1, at - 1) \o <<l>> \o SubSeq(ls, at, Len(ls))

WithoutLayer(ls, lid) == SelectSeq(ls, LAMBDA l : l.id # lid)

\* map.getSource(id): the call is logged, HasSource gives its result
getSource(w, sid) == Call(w, [op |-> "getSource", id |-> sid])

\* map.getLayer(id)
getLayer(w, lid) == Call(w, [op |-> "getLayer", id |-> lid])

\* map.getStyle()
getStyle(w) == Call(w, [op |-> "getStyle"])

\* map.addSource(id, source)
addSource(w, sid, src) ==
    [Call(w, [op |-> "addSource", id |-> sid, source |-> src])
        EXCEPT !.sources = (sid :> src) @@ @]

\* map.removeSource(id)
removeSource(w, sid) ==
    [Call(w, [op |-> "removeSource", id |-> sid])
        EXCEPT !.sources = [k \in DOMAIN @ \ {sid} |-> @[k]]]

\* source.setData(data) on the source registered under sid
setData(w, sid, data) ==
    [Call(w, [op |-> "setData", id |-> sid, data |-> data])
        EXCEPT !.sources = [@ EXCEPT ![sid] = ("data" :> data) @@ @]]

\* map.addLayer(layer, before): a layer whose id is taken is rejected
addLayer(w, layer, before) ==
    LET w1 == Call(w, [op |-> "addLayer", id |-> layer.id, layer |-> layer,
                       before |-> before])
    IN IF HasLayer(w, layer.id)
       THEN w1
       ELSE [w1 EXCEPT !.layers = InsertLayer(@, layer, before)]

\* map.removeLayer(id)
removeLayer(w, lid) ==
    [Call(w, [op |-> "removeLayer", id |-> lid])
        EXCEPT !.layers = WithoutLayer(@, lid)]

\* the layers with F applied to the layer lid (none when it is missing)
OnLayer(ls, lid, F(_)) ==
    [i \in 1..Len(ls) |-> IF ls[i].id = lid THEN F(ls[i]) ELSE ls[i]]

\* map.setFilter(id, filter)
setFilter(w, lid, filter) ==
    LET F(l) == ("filter" :> filter) @@ l
    IN [Call(w, [op |-> "setFilter", id |-> lid, filter |-> filter,
                 found |-> HasLayer(w, lid)])
           EXCEPT !.layers = OnLayer(@, lid, F)]

\* map.setPaintProperty(id, key, value)
setPaintProperty(w, lid, key, value) ==
    LET F(l) == [l EXCEPT !["paint"] = (key :> value) @@ @]
    IN [Call(w, [op |-> "setPaintProperty", id |-> lid, key |-> key,
                 value |-> value, found |-> HasLayer(w, lid)])
           EXCEPT !.layers = OnLayer(@, lid, F)]

\* map.setLayoutProperty(id, key, value)
setLayoutProperty(w, lid, key, value) ==
    LET F(l) == [l EXCEPT !["layout"] = (key :> value) @@ @]
    IN [Call(w, [op |-> "setLayoutProperty", id |-> lid, key |-> key,
                 value |-> value, found |-> HasLayer(w, lid)])
           EXCEPT !.layers = OnLayer(@, lid, F)]

\* map.moveLayer(id, before)
moveLayer(w, lid, before) ==
    LET w1 == Call(w, [op |-> "moveLayer", id |-> lid, before |-> before,
                       found |-> HasLayer(w, lid)])
    IN IF ~HasLayer(w, lid) \/ before = {lid}
       THEN w1
       ELSE [w1 EXCEPT !.layers =
                InsertLayer(WithoutLayer(@, lid), @[LayerIndex(@, lid)], before)]

\* map.on(event, layerId, handler)
on(w, event, lid, handler) ==
    [Call(w, [op |-> "on", event |-> event, id |-> lid, handler |-> handler])
        EXCEPT !.listeners = @ (+) SetToBag({<<event, lid, handler>>})]

\* map.off(event, layerId, handler): removes one matching subscription
off(w, event, lid, handler) ==
    [Call(w, [op |-> "off", event |-> event, id |-> lid, handler |-> handler])
        EXCEPT !.listeners = IF BagIn(<<event, lid, handler>>, @)
                             THEN @ (-) SetToBag({<<event, lid, handler>>})
                             ELSE @]

\* map.on('styledata', this.onStyleDataChange)
onStyleData(w) ==
    [Call(w, [op |-> "on", event |-> "styledata"])
        EXCEPT !.styleListeners = @ + 1]

\* map.off('styledata', this.onStyleDataChange)
offStyleData(w) ==
    [Call(w, [op |-> "off", event |-> "styledata"])
        EXCEPT !.styleListeners = IF @ > 0 THEN @ - 1 ELSE 0]

\* this.forceUpdate(): render() returns null, nothing else runs
forceUpdate(w) == Call(w, [op |-> "forceUpdate"])

----------------------------------------------------------------------------
(* The component: each operator is one method of GeoJSONLayer, run on the   *)
(* world w with this.props = p.                                             *)

\* the prefix of a generated id; generateID() itself is not part of the file
GeneratedId == "geojson-1"

\* private id = this.props.id || `geojson-${generateID()}`
InitialId(p) == IF Has(p, "id") THEN p["id"] ELSE GeneratedId

\* private source = { type: 'geojson', ...this.props.sourceOptions, data: this.props.data }
SourceOf(p) ==
    Spread(Spread([type |-> "geojson"],
                  IF Has(p, "sourceOptions") THEN p["sourceOptions"] ELSE EmptyObj),
           "data" :> p["data"])

buildLayerId(bid, type) == bid \o "-" \o type

mapLayerMouseHandlers(w, p, type) ==
    LET layerId == buildLayerId(w.id, type)
        Each(v, event) ==
            IF Has(p, HandlerProp(type, event))
            THEN on(v, event, layerId, p[HandlerProp(type, event)])
            ELSE v
    IN ForEach(events, Each, w)

\* the layer descriptor createLayer hands to map.addLayer
LayerDescriptor(bid, p, type) ==
    LET paint == IF Has(p, PaintProp(type)) THEN p[PaintProp(type)] ELSE EmptyObj
        visibility == IF Keys(paint) # {} THEN "visible" ELSE "none"
        layout == IF Has(p, LayoutProp(type))
                  THEN p[LayoutProp(type)]
                  ELSE [visibility |-> visibility]
        layerOptions == IF Has(p, "layerOptions") THEN p["layerOptions"] ELSE EmptyObj
    IN Spread([id |-> buildLayerId(bid, type), source |-> bid, type |-> type,
               paint |-> paint, layout |-> layout],
              layerOptions)

createLayer(w, p, type) ==
    LET w1 == [w EXCEPT !.layerIds = Append(@, buildLayerId(w.id, type))]
        w2 == addLayer(w1, LayerDescriptor(w.id, p, type), Opt(p, "before"))
    IN mapLayerMouseHandlers(w2, p, type)

\* mutant: the line layer is created before the symbol layer
initialize_LineFirst(w, p) ==
    LET w0 == addSource(w, w.id, w.source)
        w1 == createLayer(w0, p, "line")
        w2 == createLayer(w1, p, "symbol")
        w3 == createLayer(w2, p, "fill")
        w4 == createLayer(w3, p, "fill-extrusion")
    IN createLayer(w4, p, "circle")

initialize(w, p) ==
    LET w0 == addSource(w, w.id, w.source)
        w1 == createLayer(w0, p, "symbol")
        w2 == createLayer(w1, p, "line")
        w3 == createLayer(w2, p, "fill")
        w4 == createLayer(w3, p, "fill-extrusion")
    IN createLayer(w4, p, "circle")

unbind(w, p) ==
    LET w0 == getSource(w, w.id)
        w1 == IF HasSource(w0, w.id) THEN removeSource(w0, w.id) ELSE w0
        EachType(v, type) ==
            LET EachEvent(u, event) ==
                    IF Has(p, HandlerProp(type, event))
                    THEN off(u, event, buildLayerId(w.id, type),
                             p[HandlerProp(type, event)])
                    ELSE u
            IN ForEach(events, EachEvent, v)
        w2 == ForEach(types, EachType, w1)
        EachLayer(v, lId) ==
            LET v1 == getLayer(v, lId)
            IN IF HasLayer(v1, lId) THEN removeLayer(v1, lId) ELSE v1
    IN ForEach(w2.layerIds, EachLayer, w2)

\* mutant: the listener tears down but does not initialize again
onStyleDataChange_NoInitialize(w, p) ==
    LET w0 == getSource(w, w.id)
    IN IF ~HasSource(w0, w.id) THEN forceUpdate(unbind(w0, p)) ELSE w0

\* mutant: the listener re-mounts whenever one of its layers is missing
onStyleDataChange_PartialLoss(w, p) ==
    LET w0 == getSource(w, w.id)
    IN IF ~HasSource(w0, w.id)
          \/ \E i \in 1..Len(types) : ~HasLayer(w0, buildLayerId(w.id, types[i]))
       THEN forceUpdate(initialize(unbind(w0, p), p))
       ELSE w0

onStyleDataChange(w, p) ==
    LET w0 == getSource(w, w.id)
    IN IF ~HasSource(w0, w.id)
       THEN forceUpdate(initialize(unbind(w0, p), p))
       ELSE w0

componentWillMount(w, p) == onStyleData(initialize(w, p))

\* mutant: no guard against a missing map or style
componentWillUnmount_NoGuard(w, p, map, style) == unbind(offStyleData(w), p)

\* map: context.map is set; style: map.getStyle() returns one
componentWillUnmount(w, p, map, style) ==
    IF ~map
    THEN w
    ELSE LET w0 == getStyle(w)
         IN IF ~style THEN w0 ELSE unbind(offStyleData(w0), p)

\* the keys of an object in iteration order
RECURSIVE KeySeq(_)
KeySeq(o) ==
    IF DOMAIN o = {}
    THEN <<>>
    ELSE LET k == CHOOSE x \in DOMAIN o : TRUE
         IN <<k>> \o KeySeq([x \in DOMAIN o \ {k} |-> o[x]])

\* isEqual(a, b) of 'deep-equal', on two property slots
isEqual(a, b) == a = b

\* diff(obj1, obj2) of ./util/diff, on two property slots: the keys of obj2
\* that obj1 lacks or holds with another value, with obj2's values
diff(a, b) ==
    LET obj1 == IF a = {} THEN EmptyObj ELSE CHOOSE o \in a : TRUE
        obj2 == IF b = {} THEN EmptyObj ELSE CHOOSE o \in b : TRUE
        changed == {k \in DOMAIN obj2 : k \notin DOMAIN obj1 \/ obj1[k] # obj2[k]}
    IN [k \in changed |-> obj2[k]]

\* const layerFilterChanged = props.layerOptions && layerOptions && !isEqual(...)
layerFilterChanged(p, np) ==
    /\ Has(np, "layerOptions")
    /\ Has(p, "layerOptions")
    /\ ~isEqual(Opt(np["layerOptions"], "filter"), Opt(p["layerOptions"], "filter"))

\* props.layerOptions.filter || []
FilterOrEmpty(np) ==
    IF Has(np["layerOptions"], "filter") THEN np["layerOptions"]["filter"] ELSE <<>>

\* the body of types.forEach in componentWillReceiveProps
ReceiveType(w, p, np, type) ==
    LET layerId == buildLayerId(w.id, type)
        w1 == IF Has(np, "layerOptions") /\ layerFilterChanged(p, np)
              THEN setFilter(w, layerId, FilterOrEmpty(np))
              ELSE w
        paintDiff == diff(Opt(p, PaintProp(type)), Opt(np, PaintProp(type)))
        SetPaint(v, key) == setPaintProperty(v, layerId, key, paintDiff[key])
        w2 == IF ~isEqual(Opt(np, PaintProp(type)), Opt(p, PaintProp(type)))
              THEN ForEach(KeySeq(paintDiff), SetPaint, w1)
              ELSE w1
        layoutDiff == diff(Opt(p, LayoutProp(type)), Opt(np, LayoutProp(type)))
        SetLayout(v, key) == setLayoutProperty(v, layerId, key, layoutDiff[key])
        w3 == IF ~isEqual(Opt(np, LayoutProp(type)), Opt(p, LayoutProp(type)))
              THEN ForEach(KeySeq(layoutDiff), SetLayout, w2)
              ELSE w2
        EachEvent(v, event) ==
            LET prop == HandlerProp(type, event)
                v1 == IF Has(p, prop) THEN off(v, event, layerId, p[prop]) ELSE v
            IN IF Opt(np, prop) # Opt(p, prop)
               THEN (IF Has(np, prop) THEN on(v1, event, layerId, np[prop]) ELSE v1)
               ELSE v
        w4 == ForEach(events, EachEvent, w3)
    IN IF Opt(p, "before") # Opt(np, "before")
       THEN moveLayer(w4, layerId, Opt(np, "before"))
       ELSE w4

\* mutant: new data replaces the source instead of updating it in place
componentWillReceiveProps_Recreate(w, p, np) ==
    LET w0 == getSource(w, w.id)
        w1 == [w0 EXCEPT !.source = SourceOf(np)]
        w2 == addSource(removeSource(w1, w.id), w.id, w1.source)
        EachType(v, type) == ReceiveType(v, p, np, type)
    IN IF np["data"] # p["data"]
       THEN (IF HasSource(w, w.id)
             THEN ForEach(types, EachType, w2)
             ELSE [w0 EXCEPT !.raised = TRUE])
       ELSE ForEach(types, EachType, w)

\* mutant: the types are visited from circle down to symbol
componentWillReceiveProps_Reversed(w, p, np) ==
    LET w0 == getSource(w, w.id)
        w1 == [setData(w0, w.id, np["data"]) EXCEPT !.source = SourceOf(np)]
        EachType(v, type) == ReceiveType(v, p, np, type)
        reversed == [i \in 1..Len(types) |-> types[Len(types) + 1 - i]]
    IN IF np["data"] # p["data"]
       THEN (IF HasSource(w, w.id)
             THEN ForEach(reversed, EachType, w1)
             ELSE [w0 EXCEPT !.raised = TRUE])
       ELSE ForEach(reversed, EachType, w)

\* mutant: new data is pushed to the map but this.source keeps the old one
componentWillReceiveProps_StaleSource(w, p, np) ==
    LET w0 == getSource(w, w.id)
        w1 == setData(w0, w.id, np["data"])
        EachType(v, type) == ReceiveType(v, p, np, type)
    IN IF np["data"] # p["data"]
       THEN (IF HasSource(w, w.id)
             THEN ForEach(types, EachType, w1)
             ELSE [w0 EXCEPT !.raised = TRUE])
       ELSE ForEach(types, EachType, w)

\* componentWillReceiveProps(props) with this.props = p and props = np.
\* map.getSource(this.id) is undefined when the source is missing, and the
\* .setData on it throws a TypeError that ends the method.
componentWillReceiveProps(w, p, np) ==
    LET w0 == getSource(w, w.id)
        w1 == [setData(w0, w.id, np["data"]) EXCEPT !.source = SourceOf(np)]
        EachType(v, type) == ReceiveType(v, p, np, type)
    IN IF np["data"] # p["data"]
       THEN (IF HasSource(w, w.id)
             THEN ForEach(types, EachType, w1)
             ELSE [w0 EXCEPT !.raised = TRUE])
       ELSE ForEach(types, EachType, w)

----------------------------------------------------------------------------
(* The property sets the owner can hand to the component. *)

\* GeoJSON payloads: two objects are the same reference iff ref is equal
Data(ref, geo) == [ref |-> ref, geo |-> geo]

D1 == Data("r1", "A")
D2 == Data("r2", "B")
\* another object with the content of D1
D3 == Data("r3", "A")

F1 == <<"==", "kind", "road">>
F2 == <<"==", "kind", "rail">>

Base == "data" :> D1

Overrides ==
    { EmptyObj,
      "data" :> D2,
      "data" :> D3,
      "before" :> "base",
      "layerOptions" :> ("filter" :> F1),
      "layerOptions" :> ("filter" :> F2),
      "layerOptions" :> ("minzoom" :> "4"),
      "layerOptions" :> ("id" :> "custom"),
      ("layerOptions" :> ("layout" :> [visibility |-> "none"]))
          @@ ("linePaint" :> ("line-color" :> "#000")),
      "linePaint" :> EmptyObj,
      "linePaint" :> ("line-color" :> "#000"),
      "linePaint" :> ("line-color" :> "#fff"),
      ("linePaint" :> (("line-color" :> "#fff") @@ ("line-width" :> "2")))
          @@ ("data" :> D2),
      ("fillExtrusionPaint" :> ("fill-extrusion-color" :> "#000"))
          @@ ("fillExtrusionLayout" :> [visibility |-> "none"]),
      "lineLayout" :> (("visibility" :> "visible") @@ ("line-cap" :> "round")),
      "lineOnClick" :> "h1",
      ("lineOnClick" :> "h2") @@ ("fillExtrusionOnMouseMove" :> "h1"),
      ("id" :> "my") @@ ("circleOnMouseUp" :> "h1")
          @@ ("sourceOptions" :> ("cluster" :> "true")) }

Configs == {Spread(Base, o) : o \in Overrides}

\* an owner renders the component with one or two property sets, switching
\* between them in any order
Owners == {{a, b} : a, b \in Configs}

\* the layers of a style of the map itself
BaseLayers == << [id |-> "base", type |-> "background"] >>

----------------------------------------------------------------------------
(* State machine *)

World ==
    [id |-> id, source |-> source, layerIds |-> layerIds, sources |-> sources,
     layers |-> layers, listeners |-> listeners, styleListeners |-> styleListeners,
     log |-> <<>>, raised |-> FALSE]

\* the variables take the world a lifecycle call leaves
Becomes(w) ==
    /\ source' = w.source
    /\ layerIds' = w.layerIds
    /\ sources' = w.sources
    /\ layers' = w.layers
    /\ listeners' = w.listeners
    /\ styleListeners' = w.styleListeners
    /\ log' = w.log

\* the constructor has run: the map is ready and its style is loaded
Init ==
    /\ owner \in Owners
    /\ props \in owner
    /\ phase = "new"
    /\ id = InitialId(props)
    /\ source = SourceOf(props)
    /\ layerIds = <<>>
    /\ mapPresent = TRUE
    /\ styleLoaded = TRUE
    /\ sources = EmptyObj
    /\ layers = BaseLayers
    /\ listeners = EmptyBag
    /\ styleListeners = 0
    /\ pending = FALSE
    /\ resets = 0
    /\ last = [op |-> "construct", raised |-> FALSE]
    /\ log = <<>>

Mount ==
    /\ phase = "new"
    /\ mapPresent /\ styleLoaded
    /\ Becomes(componentWillMount(World, props))
    /\ phase' = "mounted"
    /\ last' = [op |-> "mount", raised |-> FALSE]
    /\ UNCHANGED <<id, props, mapPresent, styleLoaded, pending, resets, owner>>

\* the framework hands over new properties; it replaces this.props only
\* when componentWillReceiveProps returns.  Updates are followed while the
\* map has a style, the window between a style replacement and its
\* 'styledata' included; what the map does to calls made without any style
\* is not modelled.
Update ==
    /\ phase = "mounted"
    /\ mapPresent /\ styleLoaded
    /\ \E np \in owner :
        LET w == componentWillReceiveProps(World, props, np)
        IN /\ Becomes(w)
           /\ props' = IF w.raised THEN props ELSE np
           /\ last' = [op |-> "update", raised |-> w.raised, prev |-> props,
                       next |-> np, hadSource |-> id \in DOMAIN sources]
    /\ UNCHANGED <<phase, id, mapPresent, styleLoaded, pending, resets, owner>>

\* the map delivers 'styledata' to its listeners
StyleData ==
    /\ mapPresent /\ styleLoaded
    /\ LET Deliver(w, n) == onStyleDataChange(w, props)
           w == ForEach([i \in 1..styleListeners |-> i], Deliver, World)
       IN /\ Becomes(w)
          /\ last' = [op |-> "styledata", raised |-> FALSE,
                      hadSource |-> id \in DOMAIN sources,
                      listening |-> styleListeners > 0]
    /\ pending' = FALSE
    /\ UNCHANGED <<phase, id, props, mapPresent, styleLoaded, resets, owner>>

Unmount ==
    /\ phase = "mounted"
    /\ Becomes(componentWillUnmount(World, props, mapPresent, styleLoaded))
    /\ phase' = "unmounted"
    /\ last' = [op |-> "unmount", raised |-> FALSE, map |-> mapPresent,
                style |-> styleLoaded]
    /\ UNCHANGED <<id, props, mapPresent, styleLoaded, pending, resets, owner>>

\* map.setStyle(another style): the sources and layers of the old style go
WipeStyle ==
    /\ phase # "new"
    /\ mapPresent /\ styleLoaded
    /\ resets < MaxResets
    /\ resets' = resets + 1
    /\ sources' = EmptyObj
    /\ layers' = BaseLayers
    /\ pending' = TRUE
    /\ last' = [op |-> "wipe", raised |-> FALSE]
    /\ log' = <<>>
    /\ UNCHANGED <<phase, id, props, source, layerIds, mapPresent, styleLoaded,
                   listeners, styleListeners, owner>>

\* the style is unloaded (map.remove(), map.setStyle(null))
UnloadStyle ==
    /\ phase # "new"
    /\ mapPresent /\ styleLoaded
    /\ resets < MaxResets
    /\ resets' = resets + 1
    /\ styleLoaded' = FALSE
    /\ sources' = EmptyObj
    /\ layers' = <<>>
    /\ pending' = FALSE
    /\ last' = [op |-> "unload", raised |-> FALSE]
    /\ log' = <<>>
    /\ UNCHANGED <<phase, id, props, source, layerIds, mapPresent, listeners,
                   styleListeners, owner>>

\* a change of the style takes some of the component's layers off the map
\* and leaves its source: the line layer, or all five
LayersLost ==
    /\ phase = "mounted"
    /\ mapPresent /\ styleLoaded
    /\ resets < MaxResets
    /\ id \in DOMAIN sources
    /\ \E gone \in {{"line"}, Range(types)} :
          /\ layers' = SelectSeq(layers,
                          LAMBDA l : l.id \notin {buildLayerId(id, t) : t \in gone})
          /\ layers' # layers
    /\ resets' = resets + 1
    /\ pending' = TRUE
    /\ last' = [op |-> "lose", raised |-> FALSE]
    /\ log' = <<>>
    /\ UNCHANGED <<phase, id, props, source, layerIds, mapPresent, styleLoaded,
                   sources, listeners, styleListeners, owner>>

\* a style is loaded into a map that had none
LoadStyle ==
    /\ mapPresent /\ ~styleLoaded
    /\ styleLoaded' = TRUE
    /\ layers' = BaseLayers
    /\ pending' = TRUE
    /\ last' = [op |-> "load", raised |-> FALSE]
    /\ log' = <<>>
    /\ UNCHANGED <<phase, id, props, source, layerIds, mapPresent, sources,
                   listeners, styleListeners, resets, owner>>

\* the owner of the map lets go of the removed map: context.map is unset
ContextLost ==
    /\ phase = "mounted"
    /\ mapPresent /\ ~styleLoaded
    /\ mapPresent' = FALSE
    /\ last' = [op |-> "contextlost", raised |-> FALSE]
    /\ log' = <<>>
    /\ UNCHANGED <<phase, id, props, source, layerIds, styleLoaded, sources, layers,
                   listeners, styleListeners, pending, resets, owner>>

Next ==
    \/ Mount
    \/ Update
    \/ StyleData
    \/ Unmount
    \/ WipeStyle
    \/ UnloadStyle
    \/ LayersLost
    \/ LoadStyle
    \/ ContextLost

Spec == Init /\ [][Next]_vars

----------------------------------------------------------------------------
(* Vocabulary of the properties *)

TypeSet == Range(types)
EventSet == Range(events)

\* the five layer ids the component derives from its id
LayerIdOf(type) == buildLayerId(id, type)
OwnLayerIds == {LayerIdOf(t) : t \in TypeSet}

\* the layers on the map that the component added: they name its source
OwnLayers == {i \in 1..Len(layers) : Has(layers[i], "source") /\ layers[i]["source"] = id}

LayerOnMap(lid) == \E i \in 1..Len(layers) : layers[i].id = lid
TheLayer(lid) == layers[CHOOSE i \in 1..Len(layers) : layers[i].id = lid]

\* the handlers subscribed on the map for an event of a layer id
Subscribed(event, lid) ==
    {t[3] : t \in {u \in BagToSet(listeners) : u[1] = event /\ u[2] = lid}}

\* the subscriptions that the property set p declares, each once
Declared(p) ==
    SetToBag({<<e, LayerIdOf(t), p[HandlerProp(t, e)]>> :
                <<t, e>> \in {x \in TypeSet \X EventSet : Has(p, HandlerProp(x[1], x[2]))}})

\* the calls of the log with one of the given names
Calls(names) == SelectSeq(log, LAMBDA c : c.op \in names)

MouseCall(c) == c.op \in {"on", "off"} /\ c.event # "styledata"

\* the paint and layout a type has in the property set p, with createLayer's defaults
PaintOf(p, type) == IF Has(p, PaintProp(type)) THEN p[PaintProp(type)] ELSE EmptyObj
DefaultLayout(p, type) ==
    [visibility |-> IF Keys(PaintOf(p, type)) # {} THEN "visible" ELSE "none"]
LayoutOf(p, type) ==
    IF Has(p, LayoutProp(type)) THEN p[LayoutProp(type)] ELSE DefaultLayout(p, type)

----------------------------------------------------------------------------
(* C1 -- teardown.  After componentWillUnmount has run with the map present *)
(* and its style loaded: onStyleDataChange is no longer subscribed to       *)
(* 'styledata', no handler is subscribed for any of the five layer ids and  *)
(* six events, the source is not on the map and no layer the component      *)
(* added is on the map.                                                     *)
\* C1: after an unmount with map and style, nothing of the component is left
C1_UnmountTearsDown ==
    (last.op = "unmount" /\ last.map /\ last.style) =>
        /\ styleListeners = 0
        /\ \A t \in TypeSet, e \in EventSet : Subscribed(e, LayerIdOf(t)) = {}
        /\ id \notin DOMAIN sources
        /\ OwnLayers = {}

\* C1, narrower: the same, counting only the layers that carry one of the
\* five derived ids
C1_DerivedIdsTornDown ==
    (last.op = "unmount" /\ last.map /\ last.style) =>
        /\ styleListeners = 0
        /\ \A t \in TypeSet, e \in EventSet : Subscribed(e, LayerIdOf(t)) = {}
        /\ id \notin DOMAIN sources
        /\ \A t \in TypeSet : ~LayerOnMap(LayerIdOf(t))

----------------------------------------------------------------------------
(* C2 -- one source, at most five layers.                                   *)

\* the source is on the map, and the component's layers on the map are at
\* most five, of pairwise different types among the five
OneSourceFiveLayers ==
    /\ id \in DOMAIN sources
    /\ Cardinality(OwnLayers) <= 5
    /\ \A i \in OwnLayers : layers[i].type \in TypeSet
    /\ \A i, j \in OwnLayers : layers[i].type = layers[j].type => i = j

----------------------------------------------------------------------------
(* C3 -- layer ids.  For every property set, every layer the component adds *)
(* has the id "<id>-<type>" of its type, the five ids are pairwise          *)
(* distinct, and every call the component makes for a layer names one of    *)
(* these ids.                                                               *)
\* C3: derived, distinct and stable layer ids
C3_LayerIds ==
    /\ \A i \in OwnLayers : layers[i].id = LayerIdOf(layers[i].type)
    /\ \A t1, t2 \in TypeSet : LayerIdOf(t1) = LayerIdOf(t2) => t1 = t2
    /\ \A k \in 1..Len(log) :
          (log[k].op \in {"addLayer", "removeLayer", "getLayer", "setFilter",
                          "setPaintProperty", "setLayoutProperty", "moveLayer"}
           \/ MouseCall(log[k]))
          => log[k].id \in OwnLayerIds

----------------------------------------------------------------------------
(* C4 -- re-mount on style reset.  When 'styledata' is delivered and the    *)
(* source is missing, onStyleDataChange leaves the source registered, all   *)
(* five layers on the map with the current paint and layout, and every      *)
(* declared handler subscribed exactly once on its layer id.                *)
\* C4: after the re-mount the source, the five layers and the handlers are back
C4_Remounted ==
    (last.op = "styledata" /\ last.listening /\ ~last.hadSource) =>
        /\ id \in DOMAIN sources
        /\ \A t \in TypeSet :
              /\ LayerOnMap(LayerIdOf(t))
              /\ TheLayer(LayerIdOf(t)).paint = PaintOf(props, t)
              /\ TheLayer(LayerIdOf(t)).layout = LayoutOf(props, t)
        /\ listeners = Declared(props)

\* C4, narrower: the source is back and each declared handler is subscribed
\* exactly once
C4_HandlersOnce ==
    (last.op = "styledata" /\ last.listening /\ ~last.hadSource) =>
        /\ id \in DOMAIN sources
        /\ listeners = Declared(props)

----------------------------------------------------------------------------
(* C5 -- mouse handlers.  While mounted, the handlers subscribed on the map *)
(* for a layer id and event are exactly the one held by the current         *)
(* property slot, once, and none when the slot is unset; on an update, a    *)
(* slot whose handler changed sees its old handler unsubscribed and then    *)
(* its new handler subscribed, and a slot whose handler did not change sees *)
(* no on/off call.                                                          *)

\* the on/off calls of the log for one slot
SlotCalls(type, event) ==
    SelectSeq(log, LAMBDA c : MouseCall(c) /\ c.event = event /\ c.id = LayerIdOf(type))

\* the calls a change of the slot from property set p to np asks for
SlotChange(p, np, type, event) ==
    LET prop == HandlerProp(type, event)
        offs == IF Has(p, prop)
                THEN <<[op |-> "off", event |-> event, id |-> LayerIdOf(type),
                        handler |-> p[prop]]>>
                ELSE <<>>
        ons == IF Has(np, prop)
               THEN <<[op |-> "on", event |-> event, id |-> LayerIdOf(type),
                       handler |-> np[prop]]>>
               ELSE <<>>
    IN IF Opt(p, prop) # Opt(np, prop) THEN offs \o ons ELSE <<>>

\* C5, first half: while mounted the subscriptions are those of the slots
C5_SubscriptionsMatchSlots == phase = "mounted" => listeners = Declared(props)

\* C5, second half: an update calls off(old) then on(new) for each slot whose
\* handler changed, and nothing for the others
C5_UpdateSwapsHandlers ==
    last.op = "update" =>
        \A t \in TypeSet, e \in EventSet :
            SlotCalls(t, e) = SlotChange(last.prev, last.next, t, e)

\* C5: both halves
C5_Handlers == C5_SubscriptionsMatchSlots /\ C5_UpdateSwapsHandlers

\* C5, narrower: the second half for the updates that run to their end
C5_CompletedUpdateSwapsHandlers ==
    (last.op = "update" /\ ~last.raised) =>
        \A t \in TypeSet, e \in EventSet :
            SlotCalls(t, e) = SlotChange(last.prev, last.next, t, e)

----------------------------------------------------------------------------
(* C6 -- paint diff.  On an update from paint P1 to paint P2 of a type, the *)
(* log holds exactly one setPaintProperty(layerId, key, P2[key]) for each   *)
(* key of P2 that P1 lacks or holds with another value, and none for any    *)
(* other key; a type whose paint and layout did not change sees no paint or *)
(* layout call on its layer.                                                *)

\* the keys of P2 that P1 lacks or holds with another value
ChangedKeys(P1, P2) == {k \in DOMAIN P2 : k \notin DOMAIN P1 \/ P1[k] # P2[k]}

ObjOf(p, prop) == IF Has(p, prop) THEN p[prop] ELSE EmptyObj

PaintCalls(type) ==
    SelectSeq(log, LAMBDA c : c.op = "setPaintProperty" /\ c.id = LayerIdOf(type))

StyleCalls(type) ==
    SelectSeq(log, LAMBDA c : c.op \in {"setPaintProperty", "setLayoutProperty"}
                               /\ c.id = LayerIdOf(type))

PaintDiffApplied(p, np, type) ==
    LET P1 == ObjOf(p, PaintProp(type))
        P2 == ObjOf(np, PaintProp(type))
        calls == PaintCalls(type)
    IN /\ \A k \in ChangedKeys(P1, P2) :
             Cardinality({i \in 1..Len(calls) : calls[i].key = k}) = 1
       /\ \A i \in 1..Len(calls) :
             calls[i].key \in ChangedKeys(P1, P2) /\ calls[i].value = P2[calls[i].key]

\* C6: an update makes exactly the setPaintProperty calls of the changed keys
\* of each type, and no paint or layout call for a type it did not change
C6_PaintDiff ==
    last.op = "update" =>
        \A t \in TypeSet :
            /\ PaintDiffApplied(last.prev, last.next, t)
            /\ (/\ Opt(last.prev, PaintProp(t)) = Opt(last.next, PaintProp(t))
                /\ Opt(last.prev, LayoutProp(t)) = Opt(last.next, LayoutProp(t)))
               => StyleCalls(t) = <<>>

\* C6, narrower: the same for the updates that run to their end
C6_CompletedPaintDiff == (last.op = "update" /\ last.raised) \/ C6_PaintDiff

----------------------------------------------------------------------------
C7_DataAlwaysSet ==
    (last.op = "update" /\ last.next["data"].ref # last.prev["data"].ref) =>
        Len(Calls({"setData"})) = 1

----------------------------------------------------------------------------
(* C8 -- filter.  On an update whose layerOptions filter is not deeply      *)
(* equal to the previous one (no layerOptions counting as no filter), the   *)
(* log holds one setFilter with the new filter for each of the five layer   *)
(* ids; when the filters are deeply equal it holds no setFilter.            *)

FilterOf(p) == IF Has(p, "layerOptions") THEN Opt(p["layerOptions"], "filter") ELSE {}

\* the filter handed to the map for a property set: none is the empty filter
FilterValue(p) == IF FilterOf(p) = {} THEN <<>> ELSE CHOOSE f \in FilterOf(p) : TRUE

\* C8: an update calls setFilter on all five layer ids when the filter
\* changed, and on none when it did not
C8_Filter ==
    last.op = "update" =>
        IF FilterOf(last.next) # FilterOf(last.prev)
        THEN \A t \in TypeSet :
                SelectSeq(log, LAMBDA c : c.op = "setFilter" /\ c.id = LayerIdOf(t))
                  = <<[op |-> "setFilter", id |-> LayerIdOf(t),
                       filter |-> FilterValue(last.next),
                       found |-> LayerOnMap(LayerIdOf(t))]>>
        ELSE Calls({"setFilter"}) = <<>>

\* C8, narrower: the same for the updates that run to their end between two
\* property sets that both carry layerOptions
C8_FilterBothOptions ==
    (/\ last.op = "update" /\ ~last.raised
     /\ Has(last.prev, "layerOptions") /\ Has(last.next, "layerOptions")) => C8_Filter

----------------------------------------------------------------------------
(* C9 -- initial layout.  At mount each of the five types is added with its *)
(* explicit <type>Layout when one is supplied, and otherwise with           *)
(* visibility "none" when its paint is absent or empty and "visible" when   *)
(* its paint has a key, whatever the other properties are.                  *)
\* C9: at mount each type is added once, with the explicit layout or the
\* default its paint gives
C9_InitialLayout ==
    last.op = "mount" =>
        \A t \in TypeSet :
            LET adds == SelectSeq(log, LAMBDA c : c.op = "addLayer" /\ c.layer.type = t)
            IN /\ Len(adds) = 1
               /\ adds[1].layer.layout = LayoutOf(props, t)

\* C9, narrower: the same when layerOptions carries no layout of its own
C9_InitialLayoutNoOverride ==
    (Has(props, "layerOptions") /\ Has(props["layerOptions"], "layout")) \/ C9_InitialLayout

----------------------------------------------------------------------------
(* C10 -- unmount without a style.  When componentWillUnmount runs with the *)
(* map absent or its style unloaded, it throws nothing, calls none of off,  *)
(* removeSource, getSource, getLayer and removeLayer, and leaves the map's  *)
(* sources, layers and listeners as they were.                              *)
\* C10: an unmount without map or style makes no such call and changes
\* nothing on the map
C10_UnmountWithoutStyle ==
    [][ (phase = "mounted" /\ phase' = "unmounted" /\ (~mapPresent \/ ~styleLoaded)) =>
            /\ ~last'.raised
            /\ \A k \in 1..Len(log') :
                  log'[k].op \notin {"off", "removeSource", "getSource", "getLayer",
                                     "removeLayer"}
            /\ UNCHANGED <<sources, layers, listeners, styleListeners>> ]_vars

\* C10, a case of it: the component was unmounted after its map lost the
\* style, with a handler and its 'styledata' listener still subscribed
C10_Witness ==
    /\ last.op = "unmount" /\ last.map /\ ~last.style
    /\ listeners # EmptyBag
    /\ styleListeners = 1

\* C10, a case of it: unmounted after the owner of the map let go of it
C10_WitnessNoMap == last.op = "unmount" /\ ~last.map /\ listeners # EmptyBag

----------------------------------------------------------------------------
(* C11 -- absent source or layers.  An update throws nothing, whatever it   *)
(* changes, and when the source and layers are missing (the style was       *)
(* replaced and 'styledata' has not been delivered) it makes no call on the *)
(* missing source or on a missing layer.                                    *)

\* the calls of the log that name a layer that was not on the map
MissedCalls == SelectSeq(log, LAMBDA c : Has(c, "found") /\ ~c.found)

\* C11: an update never throws, and with the source and layers missing it
\* makes no call on the source or on a layer
C11_UpdateNeverRaises ==
    last.op = "update" =>
        /\ ~last.raised
        /\ ~last.hadSource => (MissedCalls = <<>> /\ Calls({"setData"}) = <<>>)

\* C11, first part alone: an update never throws
C11_NoThrow == last.op = "update" => ~last.raised

\* C11, second part alone: with the source and layers missing, an update
\* that does not throw makes no call on a layer
C11_NoCallOnMissing ==
    (last.op = "update" /\ ~last.raised /\ ~last.hadSource) => MissedCalls = <<>>

----------------------------------------------------------------------------
(* C12 -- the calls of mount, and the end-to-end case.  componentWillMount  *)
(* calls addSource once, first, with the component's id; then addLayer five *)
(* times, for symbol, line, fill, fill-extrusion and circle in that order,  *)
(* each layer naming the component's id as its source and each call passing *)
(* the 'before' property; then subscribes onStyleDataChange to 'styledata'  *)
(* once, last.  Mounted with data and linePaint {"line-color": "#000"}      *)
(* only, the line layer is added with layout {visibility: "visible"}; an    *)
(* update from there to linePaint {"line-color": "#fff"} makes one          *)
(* setPaintProperty(line layer id, "line-color", "#fff") and no other paint *)
(* or layout call.                                                          *)

\* the property sets of the end-to-end case
BlackLine == Spread(Base, "linePaint" :> ("line-color" :> "#000"))
WhiteLine == Spread(Base, "linePaint" :> ("line-color" :> "#fff"))

\* a call without the map's answer to it
Issued(c) == [k \in DOMAIN c \ {"found"} |-> c[k]]

C12_MountCalls ==
    last.op = "mount" =>
        LET adds == Calls({"addLayer"})
            subs == SelectSeq(log, LAMBDA c : c.op = "on" /\ c.event = "styledata")
        IN /\ Calls({"addSource"}) = <<[op |-> "addSource", id |-> id, source |-> source]>>
           /\ log[1].op = "addSource"
           /\ Len(adds) = 5
           /\ \A i \in 1..5 :
                 /\ adds[i].layer.type = types[i]
                 /\ adds[i].layer.source = id
                 /\ adds[i].before = Opt(props, "before")
           /\ Len(subs) = 1
           /\ log[Len(log)] = [op |-> "on", event |-> "styledata"]
           /\ styleListeners = 1
           /\ props = BlackLine =>
                 adds[2].layer.layout = [visibility |-> "visible"]

C12_FirstUpdateCalls ==
    (last.op = "update" /\ last.prev = BlackLine /\ last.next = WhiteLine) =>
        /\ ~last.raised
        /\ Len(Calls({"setPaintProperty", "setLayoutProperty"})) = 1
        /\ Issued(Calls({"setPaintProperty", "setLayoutProperty"})[1]) =
              [op |-> "setPaintProperty", id |-> LayerIdOf("line"),
               key |-> "line-color", value |-> "#fff"]

C12_WitnessMount == last.op = "mount" /\ props = BlackLine /\ Len(log) = 7

----------------------------------------------------------------------------
(* C13 -- the recorded layer ids.  In every state after mount, however many *)
(* times a style reset has made the component initialize again, layerIds is *)
(* the sequence of the five derived ids in the order symbol, line, fill,    *)
(* fill-extrusion, circle, and an unbind asks the map for each of them      *)
(* once.                                                                    *)

\* the five derived ids in the order of the types
DerivedIds == [i \in 1..Len(types) |-> LayerIdOf(types[i])]

\* how many times the last lifecycle call looked the layer id up
Visits(lid) == Len(SelectSeq(log, LAMBDA c : c.op = "getLayer" /\ c.id = lid))

\* C13: after mount layerIds is the five derived ids, each once and in
\* order, and unbind visits each of them once
C13_LayerIdsOnePerType ==
    phase # "new" =>
        /\ layerIds = DerivedIds
        /\ (last.op = "unmount" /\ last.map /\ last.style) =>
              \A t \in TypeSet : Visits(LayerIdOf(t)) = 1

\* C13, narrower: the same as long as no style reset has initialized the
\* component again
C13_UntilFirstReset ==
    (phase # "new" /\ Len(layerIds) <= 5) =>
        /\ layerIds = DerivedIds
        /\ (last.op = "unmount" /\ last.map /\ last.style) =>
              \A t \in TypeSet : Visits(LayerIdOf(t)) = 1

\* C13, what holds instead: layerIds is the five derived ids once for mount
\* and once more for every later initialize
C13_GrowsByFive ==
    phase # "new" =>
        /\ Len(layerIds) \in {5 * n : n \in 1..(MaxResets + 1)}
        /\ \A i \in 1..Len(layerIds) : layerIds[i] = DerivedIds[((i - 1) % 5) + 1]

----------------------------------------------------------------------------
(* C14 -- the 'before' anchor.  On an update whose before differs from the  *)
(* previous one the log holds exactly one moveLayer(layerId, new before)    *)
(* for each of the five layer ids; on an update whose before is the same it *)
(* holds no moveLayer.                                                      *)

MoveCalls(type) ==
    SelectSeq(log, LAMBDA c : c.op = "moveLayer" /\ c.id = LayerIdOf(type))

\* C14: an update moves each of the five layers once to the new anchor when
\* before changed, and moves nothing when it did not
C14_MoveOnBefore ==
    last.op = "update" =>
        IF Opt(last.prev, "before") # Opt(last.next, "before")
        THEN \A t \in TypeSet :
                /\ Len(MoveCalls(t)) = 1
                /\ Issued(MoveCalls(t)[1]) =
                      [op |-> "moveLayer", id |-> LayerIdOf(t),
                       before |-> Opt(last.next, "before")]
        ELSE Calls({"moveLayer"}) = <<>>

\* C14, narrower: the same for the updates that run to their end
C14_CompletedMoveOnBefore == (last.op = "update" /\ last.raised) \/ C14_MoveOnBefore

----------------------------------------------------------------------------
(* C15 -- a style change that leaves the source.  When 'styledata' is       *)
(* delivered and the source is on the map, onStyleDataChange calls none of  *)
(* addSource, removeSource, addLayer, removeLayer, on and off, nor any      *)
(* other call that changes the map, and does not call forceUpdate, whether  *)
(* or not layers of the component are missing from the map.                 *)

\* the derived layer ids that are not on the map
MissingLayers == {t \in TypeSet : ~LayerOnMap(LayerIdOf(t))}

C15_WitnessAllMissing ==
    /\ phase = "mounted"
    /\ last.op = "styledata" /\ last.listening /\ last.hadSource
    /\ log # <<>>
    /\ MissingLayers = TypeSet
    /\ ~Has(props, "layerOptions")

----------------------------------------------------------------------------
(* C16 -- nothing after unmount.  Once componentWillUnmount has been        *)
(* called, in its early return as well, no later lifecycle call or          *)
(* 'styledata' delivery calls addSource, addLayer or on.                    *)

\* C16: an unmounted component adds no source or layer and subscribes no
\* handler
C16_NothingAfterUnmount ==
    phase = "unmounted" =>
        /\ Calls({"addSource", "addLayer", "on"}) = <<>>
        /\ id \notin DOMAIN sources

\* C16, narrower: the same after an unmount that went past the guard
C16_NothingAfterFullUnmount ==
    (phase = "unmounted" /\ styleListeners = 0) =>
        Calls({"addSource", "addLayer", "on"}) = <<>>

\* C16, what the early return leaves behind: onStyleDataChange stays
\* subscribed
C16_EarlyReturnKeepsListener ==
    (last.op = "unmount" /\ ~(last.map /\ last.style)) => styleListeners = 1

----------------------------------------------------------------------------
(* C17 -- default visibility follows the paint.  In every mounted state,    *)
(* for each type without a <type>Layout property whose layer is on the map, *)
(* the layer's visibility is "visible" exactly when the type's current      *)
(* paint has a key, after any sequence of updates.  (Property sets whose    *)
(* layerOptions bring a layout of their own are left aside here: they are   *)
(* the case of C9.)                                                         *)

VisibilityFollowsPaint(t) ==
    LET l == TheLayer(LayerIdOf(t))
    IN /\ Has(l.layout, "visibility")
       /\ l.layout["visibility"] = "visible" <=> Keys(PaintOf(props, t)) # {}

\* C17: while mounted, a layer without explicit layout is visible exactly
\* when its current paint has a key
C17_VisibleIffPainted ==
    (phase = "mounted" /\ ~(Has(props, "layerOptions") /\ Has(props["layerOptions"], "layout"))) =>
        \A t \in TypeSet :
            (~Has(props, LayoutProp(t)) /\ LayerOnMap(LayerIdOf(t))) =>
                VisibilityFollowsPaint(t)

\* C17, narrower: the same in the states that mount or a re-mount has just
\* produced
C17_VisibleIffPaintedAtInitialize ==
    (last.op = "mount" \/ (last.op = "styledata" /\ ~last.hadSource /\ phase = "mounted")) =>
        C17_VisibleIffPainted

----------------------------------------------------------------------------
(* C18 -- the payload of the re-mount.  When onStyleDataChange registers    *)
(* the source again after a style reset, the descriptor it hands to         *)
(* addSource, and so the source on the map, carries the data of the current *)
(* properties: the payload of the last update that changed the data, not    *)
(* the payload of the original mount.                                       *)

\* C18: after a style-reset re-mount the source on the map has the current
\* data property
C18_RemountCarriesCurrentData ==
    (last.op = "styledata" /\ last.listening /\ ~last.hadSource) =>
        /\ Len(Calls({"addSource"})) = 1
        /\ Calls({"addSource"})[1].source["data"] = props["data"]
        /\ id \in DOMAIN sources
        /\ sources[id]["data"] = props["data"]

\* C18, wider: this.source holds the current data property in every state
C18_SourceFieldCurrent == source["data"] = props["data"]

\* the one property set that names the id "my"; its payload is D1
NamedMy == {c \in Configs : Has(c, "id") /\ c["id"] = "my"}

\* C18, a case of it: the component was constructed and mounted with the
\* property set named "my" (payload D1), an update has brought another
\* payload and the re-mount has registered that one
C18_Witness ==
    /\ phase = "mounted"
    /\ last.op = "styledata" /\ last.listening /\ ~last.hadSource
    /\ id = "my"
    /\ \A c \in NamedMy : c["data"] = D1
    /\ props["data"] # D1
    /\ sources[id]["data"] = props["data"]

----------------------------------------------------------------------------
(* C19 -- stacking order.  In every state the component's layers that are   *)
(* on the map lie in the order symbol, line, fill, fill-extrusion, circle   *)
(* from bottom to top; mount and every style-reset re-mount put all five    *)
(* there in that order, and an update that changes 'before' keeps the order *)
(* and leaves the layers directly below the new anchor, or on top of the    *)
(* stack when 'before' is unset.                                            *)

\* the position of a type's layer in the stack, 0 when it is not on the map
PositionOf(t) == LayerIndex(layers, LayerIdOf(t))

\* the component's layers that are on the map lie in the order of the types
InTypeOrder ==
    \A i, j \in 1..Len(types) :
        (i < j /\ PositionOf(types[i]) > 0 /\ PositionOf(types[j]) > 0)
            => PositionOf(types[i]) < PositionOf(types[j])

\* the component's layers on the map are one block, ending right below the
\* anchor or at the top of the stack
BlockAt(before) ==
    LET own == {PositionOf(t) : t \in TypeSet} \ {0}
        top == IF before = {}
               THEN Len(layers)
               ELSE LayerIndex(layers, CHOOSE b \in before : TRUE) - 1
    IN own = (top - Cardinality(own) + 1)..top

\* the property set leaves the layers their derived ids (the other case is
\* that of C3)
DerivedIdsKept(p) == ~(Has(p, "layerOptions") /\ Has(p["layerOptions"], "id"))

\* C19: the layers are always stacked in the order of the types; mount and
\* re-mount establish it and an update of before moves the block as one
C19_StackingOrder ==
    /\ InTypeOrder
    /\ (last.op = "mount" /\ DerivedIdsKept(props)) =>
          (\A t \in TypeSet : PositionOf(t) > 0) /\ BlockAt(Opt(props, "before"))
    /\ (last.op = "styledata" /\ last.listening /\ ~last.hadSource
          /\ DerivedIdsKept(props)) =>
          (\A t \in TypeSet : PositionOf(t) > 0) /\ BlockAt(Opt(props, "before"))
    /\ (last.op = "update" /\ ~last.raised
          /\ Opt(last.prev, "before") # Opt(last.next, "before")) =>
          BlockAt(Opt(last.next, "before"))

\* C19, a case of it: an update has moved all five layers from the top of
\* the stack to below the anchor
C19_Witness ==
    /\ last.op = "update" /\ ~last.raised
    /\ Opt(last.prev, "before") = {} /\ Opt(last.next, "before") = {"base"}
    /\ \A t \in TypeSet : PositionOf(t) > 0
    /\ PositionOf("circle") = LayerIndex(layers, "base") - 1

\* C19, a case of it: an update has moved all five layers back to the top
C19_WitnessToTop ==
    /\ last.op = "update" /\ ~last.raised
    /\ Opt(last.prev, "before") = {"base"} /\ Opt(last.next, "before") = {}
    /\ \A t \in TypeSet : PositionOf(t) > 0
    /\ PositionOf("circle") = Len(layers)

====
